---- MODULE Spec2Model ----
(***************************************************************************)
(* TrustCard: the analysis pipeline (Celery orchestrator, parallel chord,  *)
(* continuation, Redis cache gate) and the trust-score engine.             *)
(*                                                                         *)
(* One analysis record (one job) is modelled together with every delivery  *)
(* of its orchestrator task, the chord each delivery dispatches and the    *)
(* continuation of each chord.  Numbers of the scoring engine are fixed    *)
(* point: scores and impacts are in thousandths of a point, confidences    *)
(* and reliabilities in ten-thousandths.                                   *)
(***************************************************************************)
EXTENDS Integers, Sequences, FiniteSets, TLC

\* ------------------------------------------------------------------ bounds
\* Deliveries of process_instagram_post for the job (at-least-once delivery).
MaxDeliver == 2
\* Executions of complete_analysis per chord (at-least-once delivery).
MaxContDeliver == 1
\* Analysis rows created for the post over a behaviour of the API.
MaxRows == 3
\* Rate limiter, scaled: the minute and hour windows in ticks, the two limits,
\* the number of calls between cleanups, and the last instant of the clock.
MinuteWindow == 2
HourWindow == 4
requests_per_minute == 2
requests_per_hour == 3
cleanup_interval == 3
MaxTime == 6

Runs == 1..MaxDeliver

None == "None"

VARIABLES
    analysis,       \* the persisted Analysis row of the job
    redis_connected,\* cache_manager.redis_client is not None
    analysis_cache, \* value under trustcard:analysis:<instagram_url>
    instagram_cache,\* value under trustcard:instagram:<post_id>
    run,            \* per delivery of process_instagram_post: position and history
    chord,          \* per delivery: the parallel group it dispatched
    cont,           \* per delivery: the continuation complete_analysis of its chord
    cache_log,      \* what the cache operations of the latest step did
    bundle,         \* scoring engine: the results dictionary given to the calculator
    config,         \* scoring engine: the TrustScoreConfig in use
    score_result,   \* scoring engine: the TrustScoreResult returned
    scores,         \* grade table: the two scores looked up
    grades,         \* grade table: the grades get_grade_from_score returned for them
    row_id,         \* API: id of the latest analyses row created for the post
    queue,          \* API: analysis ids whose task waits in the Celery queue
    working,        \* API: analysis id of the task a worker is running, 0 if none
    response,       \* API: the latest HTTP response
    provenance,     \* API: which write completed the row: "cache", "fresh", "none"
    invalidated,    \* API: the cache was invalidated and no request came since
    clock,          \* rate limiter: time.time(), in ticks
    request_history,\* rate limiter: ip -> timestamps of the requests recorded
    cleanup_counter,\* rate limiter: calls since the last cleanup
    admitted,       \* rate limiter: per ip, the instants of all requests admitted
    verdict         \* rate limiter: what the latest is_allowed call returned

pipe_vars == <<analysis, redis_connected, analysis_cache, instagram_cache, run, chord, cont,
               cache_log>>
score_vars == <<bundle, config, score_result, scores, grades>>
api_vars == <<row_id, queue, working, response, provenance, invalidated>>
rate_vars == <<clock, request_history, cleanup_counter, admitted, verdict>>
vars == <<analysis, redis_connected, analysis_cache, instagram_cache, run, chord, cont,
          cache_log, bundle, config, score_result, scores, grades,
          row_id, queue, working, response, provenance, invalidated,
          clock, request_history, cleanup_counter, admitted, verdict>>

\* ================================================================ scoring
\* Python dict.get(key, default) on a dictionary modelled as a function.
Get(d, k, default) == IF k \in DOMAIN d THEN d[k] ELSE default

EmptyDict == [k \in {} |-> None]

\* TrustScoreConfig with its nested weight dataclasses flattened.
\* Units: *_penalty, base_score and grade thresholds in 1/1000 point;
\* ai_max_penalty in points (confidence is in 1/10000);
\* credibility thresholds in points, credibility multipliers in 1/1000 per point;
\* reliability thresholds in 1/10000, reliability multipliers in points.
DEFAULT_CONFIG ==
    [ base_score |-> 100000,
      ai_max_penalty |-> 30,
      deepfake_penalty |-> 40000,
      high_credibility_threshold |-> 80,
      questionable_threshold |-> 70,
      low_credibility_threshold |-> 50,
      low_credibility_multiplier |-> 800,
      questionable_multiplier |-> 500,
      high_credibility_multiplier |-> 200,
      medical_claims_penalty |-> 15000,
      conspiracy_language_penalty |-> 12000,
      urgent_language_penalty |-> 8000,
      absolutist_claims_penalty |-> 6000,
      unverified_sources_penalty |-> 10000,
      emotional_manipulation_penalty |-> 7000,
      sensationalism_penalty |-> 5000,
      conspiracy_sources_penalty |-> 25000,
      unreliable_sources_penalty |-> 20000,
      satire_penalty |-> 15000,
      low_reliability_threshold |-> 5000,
      high_reliability_threshold |-> 7000,
      low_reliability_multiplier |-> 20,
      high_reliability_multiplier |-> 10,
      a_plus |-> 95000, a |-> 90000, a_minus |-> 85000,
      b_plus |-> 80000, b |-> 75000, b_minus |-> 70000,
      c_plus |-> 65000, c |-> 60000, c_minus |-> 55000,
      d_plus |-> 50000, d |-> 45000, d_minus |-> 40000 ]

\* Python round(x, 2) on a value in 1/1000: to the nearest 1/100, a tie to the
\* even hundredth (the inputs of the model produce no ties).
Round2(x) ==
    LET a == IF x < 0 THEN -x ELSE x
        q == a \div 10
        r == a % 10
        up == r > 5 \/ (r = 5 /\ q % 2 = 1)
        m == (IF up THEN q + 1 ELSE q) * 10
    IN  IF x < 0 THEN -m ELSE m

\* max(0.0, min(100.0, score))
Clamp(x) == IF x < 0 THEN 0 ELSE IF x > 100000 THEN 100000 ELSE x

Adjustment(component, category, impact) ==
    [component |-> component, category |-> category, impact |-> impact]

RECURSIVE SumImpacts(_)
SumImpacts(adjs) ==
    IF adjs = <<>> THEN 0 ELSE Head(adjs).impact + SumImpacts(Tail(adjs))

\* The subsequence of adjustments satisfying a test on the impact sign or component.
RECURSIVE SumWhere(_, _)
SumWhere(adjs, keep) ==
    IF adjs = <<>> THEN 0
    ELSE (IF Head(adjs) \in keep THEN Head(adjs).impact ELSE 0) + SumWhere(Tail(adjs), keep)

Range(s) == {s[i] : i \in DOMAIN s}

\* A table that has the labels of its two top bands exchanged.
get_grade_top_bands_exchanged(score, cfg) ==
    IF score >= cfg.a_plus THEN "A"
    ELSE IF score >= cfg.a THEN "A+"
    ELSE IF score >= cfg.a_minus THEN "A-"
    ELSE "F"

get_grade_from_score(score, cfg) ==
    IF score >= cfg.a_plus THEN "A+"
    ELSE IF score >= cfg.a THEN "A"
    ELSE IF score >= cfg.a_minus THEN "A-"
    ELSE IF score >= cfg.b_plus THEN "B+"
    ELSE IF score >= cfg.b THEN "B"
    ELSE IF score >= cfg.b_minus THEN "B-"
    ELSE IF score >= cfg.c_plus THEN "C+"
    ELSE IF score >= cfg.c THEN "C"
    ELSE IF score >= cfg.c_minus THEN "C-"
    ELSE IF score >= cfg.d_plus THEN "D+"
    ELSE IF score >= cfg.d THEN "D"
    ELSE IF score >= cfg.d_minus THEN "D-"
    ELSE "F"

\* A rule that charges the full penalty whatever the confidence.
process_ai_detection_flat(cfg, ai_detection) ==
    IF Get(ai_detection, "status", None) /= "completed" THEN <<>>
    ELSE IF Get(Get(ai_detection, "overall", EmptyDict), "overall_ai_detected", FALSE)
         THEN << Adjustment("AI Detection", "AI-Generated Content",
                            -(cfg.ai_max_penalty * 1000)) >>
         ELSE <<>>

\* A rule that charges the full penalty when the detector failed.
process_ai_detection_penalising_failed(cfg, ai_detection) ==
    IF Get(ai_detection, "status", None) = "failed"
    THEN << Adjustment("AI Detection", "AI-Generated Content", -(cfg.ai_max_penalty * 1000)) >>
    ELSE <<>>

process_ai_detection(cfg, ai_detection) ==
    IF Get(ai_detection, "status", None) /= "completed" THEN <<>>
    ELSE LET overall == Get(ai_detection, "overall", EmptyDict) IN
         IF Get(overall, "overall_ai_detected", FALSE)
         THEN LET confidence == Get(overall, "confidence", 0) IN
              << Adjustment("AI Detection", "AI-Generated Content",
                            -((confidence * cfg.ai_max_penalty) \div 10)) >>
         ELSE <<>>

\* Informational only: OCR never contributes an adjustment.
process_ocr(cfg, ocr) == <<>>

\* A rule that charges half the penalty.
process_deepfake_halved(cfg, deepfake) ==
    IF Get(deepfake, "status", None) /= "completed" THEN <<>>
    ELSE IF Get(deepfake, "is_deepfake", FALSE)
         THEN << Adjustment("Deepfake Detection", "Deepfake/Manipulation",
                            -(cfg.deepfake_penalty \div 2)) >>
         ELSE <<>>

process_deepfake(cfg, deepfake) ==
    IF Get(deepfake, "status", None) /= "completed" THEN <<>>
    ELSE IF Get(deepfake, "is_deepfake", FALSE)
         THEN << Adjustment("Deepfake Detection", "Deepfake/Manipulation",
                            -cfg.deepfake_penalty) >>
         ELSE <<>>

\* The flag strings of the model that contain the substring MEDICAL_CLAIMS
\* ("MEDICAL_CLAIMS" in str(fact_flags) is a substring test on the list's text).
MedicalText == {"MEDICAL_CLAIMS", "MEDICAL_CLAIMS:2"}

FlagAdj(present, category, penalty) ==
    IF present THEN << Adjustment("Fact-Checking", category, -penalty) >> ELSE <<>>

\* _process_fact_checking: <<adjustments, flags, requires_review>>
process_fact_checking(cfg, fact_check) ==
    IF Get(fact_check, "status", None) /= "completed" THEN << <<>>, <<>>, FALSE >>
    ELSE
    LET credibility == Get(fact_check, "credibility_analysis", EmptyDict)
        credibility_score == Get(credibility, "score", 70)
        cred ==
            IF credibility_score < cfg.low_credibility_threshold
            THEN << Adjustment("Fact-Checking", "Low Credibility",
                               -((50 - credibility_score) * cfg.low_credibility_multiplier)) >>
            ELSE IF credibility_score < cfg.questionable_threshold
            THEN << Adjustment("Fact-Checking", "Questionable Credibility",
                               -((70 - credibility_score) * cfg.questionable_multiplier)) >>
            ELSE IF credibility_score >= cfg.high_credibility_threshold
            THEN << Adjustment("Fact-Checking", "High Credibility",
                               (credibility_score - 80) * cfg.high_credibility_multiplier) >>
            ELSE <<>>
        fact_flags == Get(fact_check, "flags", {})
        medical == (fact_flags \cap MedicalText) /= {}
        conspiracy == "CONSPIRACY_LANGUAGE" \in fact_flags
        review == Get(fact_check, "requires_manual_review", FALSE)
    IN  << cred
           \o FlagAdj(medical, "Medical Claims", cfg.medical_claims_penalty)
           \o FlagAdj(conspiracy, "Conspiracy Language", cfg.conspiracy_language_penalty)
           \o FlagAdj("URGENT_LANGUAGE" \in fact_flags, "Urgent Language",
                      cfg.urgent_language_penalty)
           \o FlagAdj("ABSOLUTIST_CLAIMS" \in fact_flags, "Absolutist Claims",
                      cfg.absolutist_claims_penalty)
           \o FlagAdj("UNVERIFIED_SOURCES" \in fact_flags, "Unverified Sources",
                      cfg.unverified_sources_penalty)
           \o FlagAdj("EMOTIONAL_MANIPULATION" \in fact_flags, "Emotional Manipulation",
                      cfg.emotional_manipulation_penalty)
           \o FlagAdj("SENSATIONALISM" \in fact_flags, "Sensationalism",
                      cfg.sensationalism_penalty),
           (IF medical THEN << "Medical claims require verification" >> ELSE <<>>)
           \o (IF conspiracy THEN << "Conspiracy theory language detected" >> ELSE <<>>)
           \o (IF review THEN << "Flagged for manual review" >> ELSE <<>>),
           review >>

\* A review rule that looks at the credibility score and the flag count only.
requires_manual_review_ignoring_medical(flags, score) ==
    score < 40 \/ Cardinality(flags) >= 3

\* FactCheckingService._requires_manual_review(flags, credibility_score)
requires_manual_review(flags, score) ==
    \/ score < 40
    \/ (flags \cap MedicalText) /= {}
    \/ Cardinality(flags) >= 3

\* The fact_check_result dictionary complete_analysis builds from analyze_claims:
\* the score, the flags and the review verdict the service computed for them.
build_fact_check_result(score, flags) ==
    [status |-> "completed", credibility_analysis |-> [score |-> score],
     flags |-> flags, requires_manual_review |-> requires_manual_review(flags, score)]

\* A rule that adds up the fixed penalties instead of choosing one.
process_source_credibility_cumulative(cfg, source_cred) ==
    IF Get(source_cred, "status", None) /= "completed" THEN << <<>>, <<>> >>
    ELSE
    LET assessment == Get(source_cred, "assessment", EmptyDict)
    IN  << (IF Get(assessment, "has_conspiracy", FALSE)
            THEN << Adjustment("Source Credibility", "Conspiracy Sources",
                               -cfg.conspiracy_sources_penalty) >> ELSE <<>>)
           \o (IF Get(assessment, "has_unreliable_sources", FALSE)
               THEN << Adjustment("Source Credibility", "Unreliable Sources",
                                  -cfg.unreliable_sources_penalty) >> ELSE <<>>)
           \o (IF Get(assessment, "has_satire", FALSE)
               THEN << Adjustment("Source Credibility", "Satire Content",
                                  -cfg.satire_penalty) >> ELSE <<>>),
           <<>> >>

\* A per-component table that keeps the latest impact instead of the sum.
calculate_component_scores_latest_only(adjustments) ==
    LET comps == {a.component : a \in Range(adjustments)} IN
    [c \in comps |->
        LET own == SelectSeq(adjustments, LAMBDA a : a.component = c)
        IN  Round2(own[Len(own)].impact)]

\* _process_source_credibility: <<adjustments, flags>>
process_source_credibility(cfg, source_cred) ==
    IF Get(source_cred, "status", None) /= "completed" THEN << <<>>, <<>> >>
    ELSE
    LET assessment == Get(source_cred, "assessment", EmptyDict)
        avg_reliability == Get(assessment, "avg_reliability_score", 5000)
    IN  IF Get(assessment, "has_conspiracy", FALSE)
        THEN << << Adjustment("Source Credibility", "Conspiracy Sources",
                              -cfg.conspiracy_sources_penalty) >>,
                << "Conspiracy theory sources detected" >> >>
        ELSE IF Get(assessment, "has_unreliable_sources", FALSE)
        THEN << << Adjustment("Source Credibility", "Unreliable Sources",
                              -cfg.unreliable_sources_penalty) >>,
                << "Unreliable sources detected" >> >>
        ELSE IF Get(assessment, "has_satire", FALSE)
        THEN << << Adjustment("Source Credibility", "Satire Content",
                              -cfg.satire_penalty) >>,
                << "Satire content detected" >> >>
        ELSE IF avg_reliability < cfg.low_reliability_threshold
        THEN << << Adjustment("Source Credibility", "Low Source Reliability",
                              -(((5000 - avg_reliability) * cfg.low_reliability_multiplier)
                                \div 10)) >>,
                <<>> >>
        ELSE IF avg_reliability > cfg.high_reliability_threshold
        THEN << << Adjustment("Source Credibility", "High Source Reliability",
                              ((avg_reliability - 7000) * cfg.high_reliability_multiplier)
                                \div 10) >>,
                <<>> >>
        ELSE << <<>>, <<>> >>

calculate_component_scores(adjustments) ==
    LET comps == {a.component : a \in Range(adjustments)} IN
    [c \in comps |->
        Round2(SumWhere(adjustments, {a \in Range(adjustments) : a.component = c}))]

\* The sum without the clamp.
unclamped_score(cfg, adjustments) == cfg.base_score + SumImpacts(adjustments)

\* score = max(0.0, min(100.0, base_score + sum of impacts))
clamp_score(cfg, adjustments) == Clamp(cfg.base_score + SumImpacts(adjustments))

\* The grade of the result: get_grade_from_score on the clamped, unrounded score.
result_grade(cfg, score) == get_grade_from_score(score, cfg)

\* TrustScoreCalculator.calculate_trust_score
calculate_trust_score(results, cfg) ==
    LET ai == process_ai_detection(cfg, Get(results, "ai_detection", EmptyDict))
        oc == process_ocr(cfg, Get(results, "ocr", EmptyDict))
        df == process_deepfake(cfg, Get(results, "deepfake", EmptyDict))
        fc == process_fact_checking(cfg, Get(results, "fact_check", EmptyDict))
        sc == process_source_credibility(cfg, Get(results, "source_credibility", EmptyDict))
        adjustments == ai \o oc \o df \o fc[1] \o sc[1]
        score == clamp_score(cfg, adjustments)
    IN  [ final_score |-> Round2(score),
          grade |-> result_grade(cfg, score),
          adjustments |-> adjustments,
          component_scores |-> calculate_component_scores(adjustments),
          total_penalties |->
              Round2(SumWhere(adjustments, {a \in Range(adjustments) : a.impact < 0})),
          total_bonuses |->
              Round2(SumWhere(adjustments, {a \in Range(adjustments) : a.impact > 0})),
          flags |-> fc[2] \o sc[2],
          requires_review |-> fc[3] ]


\* ---------------------------------------------------------- scoring inputs
\* A stage the results dictionary has no key for.
Missing == [missing |-> TRUE]

AiOptions ==
    { Missing,
      [status |-> "skipped", reason |-> "No images in post"],
      [status |-> "failed", error |-> "vision error"],
      [status |-> "completed", overall |-> [overall_ai_detected |-> FALSE, confidence |-> 2000]] }
    \cup { [status |-> "completed", overall |-> [overall_ai_detected |-> TRUE, confidence |-> c]] :
           c \in {1668, 8000, 10000} }

OcrOptions ==
    { Missing,
      [status |-> "skipped", reason |-> "No images in post"],
      [status |-> "completed", summary |-> [has_text |-> TRUE]] }

DeepfakeOptions ==
    { Missing,
      [status |-> "skipped", reason |-> "No videos or images to analyze"],
      [status |-> "pending_implementation", note |-> "Step 8"],
      [status |-> "failed", error |-> "deepfake error"],
      [status |-> "completed", is_deepfake |-> FALSE],
      [status |-> "completed", is_deepfake |-> TRUE] }

FlagSets ==
    { {},
      {"MEDICAL_CLAIMS:2"},
      {"CONSPIRACY_LANGUAGE", "URGENT_LANGUAGE"},
      {"MEDICAL_CLAIMS", "CONSPIRACY_LANGUAGE", "URGENT_LANGUAGE", "ABSOLUTIST_CLAIMS",
       "UNVERIFIED_SOURCES", "EMOTIONAL_MANIPULATION", "SENSATIONALISM"} }

FactCheckOptions ==
    { Missing,
      [status |-> "skipped", reason |-> "No text"],
      [status |-> "failed", error |-> "claim extractor error"] }
    \cup { build_fact_check_result(sc, fl) : sc \in {30, 60, 75, 90}, fl \in FlagSets }
    \cup { [status |-> "completed", credibility_analysis |-> [score |-> sc],
            flags |-> fl, requires_manual_review |-> rv] :
           sc \in {30, 60, 75, 90}, fl \in FlagSets, rv \in BOOLEAN }

SourceOptions ==
    { Missing,
      [status |-> "skipped", reason |-> "No sources"],
      [status |-> "failed", error |-> "lookup error"] }
    \cup { [status |-> "completed",
            assessment |-> [has_conspiracy |-> hc, has_unreliable_sources |-> hu,
                            has_satire |-> hs, avg_reliability_score |-> rel]] :
           hc \in BOOLEAN, hu \in BOOLEAN, hs \in BOOLEAN, rel \in {2498, 6000, 9000} }

\* The results dictionary with a key for every stage that is not Missing.
MakeResults(ai, oc, df, fc, sc) ==
    LET all == [ai_detection |-> ai, ocr |-> oc, deepfake |-> df,
                fact_check |-> fc, source_credibility |-> sc]
        keys == {k \in DOMAIN all : all[k] /= Missing}
    IN  [k \in keys |-> all[k]]

\* Configurations: the defaults, a low base with other weights, a base above 100.
Configs ==
    { DEFAULT_CONFIG,
      [DEFAULT_CONFIG EXCEPT !.base_score = 50000, !.ai_max_penalty = 20,
                             !.deepfake_penalty = 60000, !.satire_penalty = 3004],
      [DEFAULT_CONFIG EXCEPT !.base_score = 120000, !.a_plus = 97000] }

ScoreInit ==
    /\ \E ai \in AiOptions, oc \in OcrOptions, df \in DeepfakeOptions,
          fc \in FactCheckOptions, sc \in SourceOptions :
          bundle = MakeResults(ai, oc, df, fc, sc)
    /\ config \in Configs
    /\ score_result = <<>>
    /\ scores = <<0, 0>>
    /\ grades = <<>>

\* calculate_trust_score(results, config)
ScoreCalculate ==
    /\ score_result = <<>>
    /\ score_result' = << calculate_trust_score(bundle, config) >>
    /\ UNCHANGED <<bundle, config, scores, grades>>

\* ------------------------------------------------------- grade table inputs
\* The twelve thresholds of a configuration's GradeThresholds.
ThresholdsOf(cfg) ==
    { cfg.a_plus, cfg.a, cfg.a_minus, cfg.b_plus, cfg.b, cfg.b_minus,
      cfg.c_plus, cfg.c, cfg.c_minus, cfg.d_plus, cfg.d, cfg.d_minus }

\* Scores looked up: the ends of [0, 100], every default threshold and the
\* score a thousandth below it, and the same around a raised A+ threshold.
GradeScores ==
    {0, 100000, 96999, 97000}
    \cup UNION { {t - 1, t} : t \in ThresholdsOf(DEFAULT_CONFIG) }

\* Threshold tables: the defaults, a raised A+, and a table whose B threshold
\* lies above its A threshold (GradeThresholds accepts any numbers).
GradeConfigs ==
    { DEFAULT_CONFIG,
      [DEFAULT_CONFIG EXCEPT !.a_plus = 97000],
      [DEFAULT_CONFIG EXCEPT !.b = 92000] }

GradeInit ==
    /\ bundle = EmptyDict
    /\ score_result = <<>>
    /\ config \in GradeConfigs
    /\ scores \in GradeScores \X GradeScores
    /\ grades = <<>>

\* get_grade_from_score(score, config), for each of the two scores
GradeLookup ==
    /\ grades = <<>>
    /\ grades' = << get_grade_from_score(scores[1], config),
                    get_grade_from_score(scores[2], config) >>
    /\ UNCHANGED <<bundle, config, score_result, scores>>

\* =============================================================== pipeline
\* A Python value that may be None: <<>> is None, <<v>> is the value v.
Some(v) == <<v>>
IsNone(x) == x = <<>>
Val(x) == x[1]

Members == {"ai_detection", "ocr", "deepfake"}

\* Posts get_post_info can return: a photo post, and a post without any media URL.
PostInfos ==
    { [type |-> "photo", images |-> 1, videos |-> 0],
      [type |-> "unknown", images |-> 0, videos |-> 0] }

ErrorInfo == [error |-> "Post not found or deleted"]

\* What get_post_info returns: None (not authenticated), an error dict, or a post.
FetchOutcomes == {<<>>, Some(ErrorInfo)} \cup {Some(p) : p \in PostInfos}

\* Values under the whole-pipeline key: what complete_analysis stores as cache_data.
CachedValues ==
    { [results |-> [fact_check |-> [status |-> "failed", error |-> "claim extractor error"],
                    trust_score_breakdown |-> [final_score |-> 100000, grade |-> "A+"]],
       trust_score |-> 100000, grade |-> "A+"],
      [results |-> [ai_detection |-> [status |-> "completed",
                                      overall |-> [overall_ai_detected |-> TRUE,
                                                   confidence |-> 8000]],
                    trust_score_breakdown |-> [final_score |-> 76000, grade |-> "B"]],
       trust_score |-> 76000, grade |-> "B"] }

\* Column trust_score Numeric(5, 2): two decimals are kept.
Numeric52(x) == Round2(x)

\* ---- cache_manager: every operation returns [raised, value]; `fault` is a
\* Redis error during the operation.
get_cached_analysis_propagating(connected, fault, stored) ==
    IF ~connected \/ fault THEN [raised |-> TRUE, value |-> <<>>]
    ELSE [raised |-> FALSE, value |-> stored]

get_cached_analysis(connected, fault, stored) ==
    IF ~connected THEN [raised |-> FALSE, value |-> <<>>]
    ELSE IF fault THEN [raised |-> FALSE, value |-> <<>>]
    ELSE [raised |-> FALSE, value |-> stored]

\* A lookup whose answer is not used: the caller always sees a miss.
get_cached_instagram_content_unread(connected, fault, stored) ==
    [raised |-> FALSE, value |-> <<>>]

get_cached_instagram_content(connected, fault, stored) ==
    IF ~connected THEN [raised |-> FALSE, value |-> <<>>]
    ELSE IF fault THEN [raised |-> FALSE, value |-> <<>>]
    ELSE [raised |-> FALSE, value |-> stored]

\* cache_instagram_content / cache_analysis_result: the stored value afterwards.
cache_store(connected, fault, stored, value) ==
    IF ~connected THEN [raised |-> FALSE, value |-> stored]
    ELSE IF fault THEN [raised |-> FALSE, value |-> stored]
    ELSE [raised |-> FALSE, value |-> Some(value)]

\* How a lookup ended, for the history of a delivery.
LookupKind(connected, fault, found) ==
    IF ~connected \/ fault THEN "fault" ELSE IF IsNone(found) THEN "miss" ELSE "hit"

\* ---- crud_analysis
\* An update that writes the columns and leaves the status alone.
update_results_keeping_status(row, results, trust_score, processing_time, content) ==
    IF row.exists
    THEN [row EXCEPT !.results = Some(results),
                     !.trust_score = Some(Numeric52(trust_score)),
                     !.processing_time = Some(processing_time),
                     !.content = IF IsNone(content) THEN @ ELSE content]
    ELSE row

update_results(row, results, trust_score, processing_time, content) ==
    IF row.exists
    THEN [row EXCEPT !.results = Some(results),
                     !.trust_score = Some(Numeric52(trust_score)),
                     !.processing_time = Some(processing_time),
                     !.status = "completed",
                     !.content = IF IsNone(content) THEN @ ELSE content]
    ELSE row

\* A failure handler that sets the status and leaves the message column alone.
mark_failed_without_message(row, message) ==
    IF row.exists THEN [row EXCEPT !.status = "failed"] ELSE row

\* The except blocks of both tasks: status failed with str(e) as the message.
\* On a deleted row the commit changes nothing.
mark_failed(row, message) ==
    IF row.exists
    THEN [row EXCEPT !.status = "failed", !.error_message = Some(message)]
    ELSE row

\* A test that takes an error dict for a post.
extraction_failed_only_on_none(post_info) ==
    IsNone(post_info)

\* `if not post_info or "error" in post_info`
extraction_failed(post_info) ==
    IsNone(post_info) \/ "error" \in DOMAIN Val(post_info)

\* str(e) of what line 382 raises: post_info.get on None is an AttributeError.
extraction_error(post_info) ==
    IF IsNone(post_info) THEN "'NoneType' object has no attribute 'get'"
    ELSE "Failed to extract: Post not found or deleted"

\* ---- the parallel members, by the post they are given (image_urls, video_urls
\* and post_type are read with post_info.get and a default)
run_ai_detection(post) ==
    IF Get(post, "images", 0) = 0 THEN { [status |-> "skipped", reason |-> "No images in post"] }
    ELSE { [status |-> "completed",
            overall |-> [overall_ai_detected |-> TRUE, confidence |-> 8000]],
           [status |-> "failed", error |-> "vision error"] }

run_ocr_extraction(post) ==
    IF Get(post, "images", 0) = 0 THEN { [status |-> "completed", combined |-> [combined_text |-> "caption"]] }
    ELSE { [status |-> "completed", combined |-> [combined_text |-> "ocr text"]],
           [status |-> "failed", error |-> "ocr error"] }

run_deepfake_detection(post) ==
    IF Get(post, "videos", 0) > 0
       \/ (Get(post, "images", 0) > 0 /\ Get(post, "type", "") \in {"photo", "carousel"})
    THEN { [status |-> "pending_implementation", note |-> "Step 8"] }
    ELSE { [status |-> "skipped", reason |-> "No videos or images to analyze"] }

member_outcomes(m, post) ==
    IF m = "ai_detection" THEN run_ai_detection(post)
    ELSE IF m = "ocr" THEN run_ocr_extraction(post)
    ELSE run_deepfake_detection(post)

\* ---- the call complete_analysis makes at lines 211-216
ScoreCallKeywords == {"results", "analysis_id", "post_info", "generate_card"}
ScoreParameters == {"results", "config"}
TrustScoreResultFields ==
    {"final_score", "grade", "grade_info", "adjustments", "component_scores",
     "total_penalties", "total_bonuses", "flags", "requires_review"}
ScoreResultReads == {"final_score", "grade", "grade_info", "adjustments", "component_scores",
                     "total_penalties", "total_bonuses", "flags", "requires_review",
                     "trust_card"}

\* A call that passes the bundle alone and reads only fields the result has.
score_call_binding(results) ==
    [raised |-> FALSE, value |-> calculate_trust_score(results, DEFAULT_CONFIG)]

\* Python binds keyword arguments to parameters or raises TypeError; reading an
\* attribute a dataclass lacks raises AttributeError.
score_call(results) ==
    IF ~(ScoreCallKeywords \subseteq ScoreParameters)
    THEN [raised |-> TRUE,
          error |-> "calculate_trust_score() got an unexpected keyword argument 'analysis_id'"]
    ELSE IF ~(ScoreResultReads \subseteq TrustScoreResultFields)
    THEN [raised |-> TRUE,
          error |-> "'TrustScoreResult' object has no attribute 'trust_card'"]
    ELSE [raised |-> FALSE, value |-> calculate_trust_score(results, DEFAULT_CONFIG)]

\* fact-checking inside the continuation: the dict built at 94-113, or the failed dict
fact_check_stage(raises) ==
    IF raises THEN [status |-> "failed", error |-> "claim extractor error"]
    ELSE [status |-> "completed", credibility_analysis |-> [score |-> 60],
          flags |-> {"URGENT_LANGUAGE"}, requires_manual_review |-> FALSE]

\* evaluate_instagram_user returns an assessment without a status key
source_eval_stage(raises) ==
    IF raises THEN [status |-> "failed", error |-> "source evaluation error"]
    ELSE [account_type |-> "unverified", reliability_score |-> 4000]

\* ---- initial values
\* pc: where the delivery is; ret, cached, trust_score, grade, error: the dict
\* the task returned; fetch: what its call of get_post_info gave ("None", "error",
\* "post"), if it made one.
NewRun == [pc |-> "undelivered", ret |-> "none", cached |-> FALSE,
           trust_score |-> <<>>, grade |-> <<>>, error |-> <<>>, fetch |-> "none"]

\* No cache operation in the latest step. Otherwise: the delivery r, and how the
\* whole-pipeline lookup (gate), the raw-content lookup (raw) and the store ended:
\* "hit", "miss", "ok", "fault" (a Redis error or no connection), "raised".
NoCacheOp == [r |-> 0, gate |-> "none", raw |-> "none", store |-> "none"]

NoChord == [dispatched |-> FALSE, post_info |-> <<>>,
            results |-> [m \in Members |-> <<>>], lost |-> {}, overdue |-> FALSE,
            first |-> "none"]

\* runs: executions so far; ret, cached, trust_score, grade: the dict the latest
\* execution returned; fact_check, source, claim_verification: the dependent
\* stages' results;
\* scored: a TrustScoreResult was computed.
NoCont == [runs |-> 0, ret |-> "none", parallel |-> <<>>, fact_check |-> <<>>, source |-> <<>>,
           claim_verification |-> <<>>,
           scored |-> FALSE, cached |-> FALSE, trust_score |-> <<>>, grade |-> <<>>]

PipeInit ==
    /\ analysis = [exists |-> TRUE, status |-> "pending", error_message |-> <<>>,
                   results |-> <<>>, trust_score |-> <<>>, processing_time |-> <<>>,
                   content |-> <<>>]
    /\ redis_connected \in BOOLEAN
    /\ analysis_cache \in {<<>>} \cup {Some(v) : v \in CachedValues}
    /\ instagram_cache \in {<<>>} \cup {Some(p) : p \in PostInfos}
    /\ (~redis_connected => IsNone(analysis_cache) /\ IsNone(instagram_cache))
    /\ run = [r \in Runs |-> NewRun]
    /\ chord = [r \in Runs |-> NoChord]
    /\ cont = [r \in Runs |-> NoCont]
    /\ cache_log = NoCacheOp

\* ---------------------------------------------------------------- actions
\* Delivery q and everything it started have come to rest: its task ended, and
\* its chord (if any) either had its continuation or waits for a lost member only.
Rested(q) ==
    /\ run[q].pc \in {"done", "killed"}
    /\ chord[q].dispatched =>
          \/ cont[q].runs = MaxContDeliver
          \/ /\ chord[q].lost /= {}
             /\ \A m \in Members : IsNone(chord[q].results[m]) => m \in chord[q].lost

\* process_instagram_post, lines 325-332: the worker takes a delivery of the
\* task, loads the row and commits status = processing. A redelivery comes after
\* the broker's visibility timeout, when the earlier delivery has come to rest.
Deliver(r) ==
    /\ run[r].pc = "undelivered"
    /\ r > 1 => Rested(r - 1)
    /\ IF analysis.exists
       THEN /\ analysis' = [analysis EXCEPT !.status = "processing"]
            /\ run' = [run EXCEPT ![r].pc = "gate"]
       ELSE /\ analysis' = analysis
            /\ run' = [run EXCEPT ![r].pc = "done", ![r].ret = "not_found"]
    /\ cache_log' = NoCacheOp
    /\ UNCHANGED <<redis_connected, analysis_cache, instagram_cache, chord, cont, score_vars, api_vars, rate_vars>>

\* The task's except block (lines 440-450): mark the job failed, return the error.
Failed(r, message) ==
    /\ analysis' = mark_failed(analysis, message)
    /\ run' = [run EXCEPT ![r].pc = "done", ![r].ret = "error", ![r].error = Some(message)]

\* process_instagram_post, lines 334-361: the whole-pipeline cache check and,
\* on a hit, update_results and the return with cached = True.
CacheGate(r) ==
    /\ run[r].pc = "gate"
    /\ \E fault \in BOOLEAN :
          LET cached_result == get_cached_analysis(redis_connected, fault, analysis_cache)
              kind == LookupKind(redis_connected, fault, analysis_cache)
          IN  IF cached_result.raised
              THEN /\ Failed(r, "redis error")
                   /\ cache_log' = [NoCacheOp EXCEPT !.r = r, !.gate = "raised"]
              ELSE IF ~IsNone(cached_result.value)
              THEN LET cv == Val(cached_result.value) IN
                   /\ analysis' = update_results(analysis, Get(cv, "results", EmptyDict),
                                                 Get(cv, "trust_score", 0), 1, <<>>)
                   /\ run' = [run EXCEPT ![r].pc = "done", ![r].ret = "success",
                                         ![r].cached = TRUE,
                                         ![r].trust_score = Some(Get(cv, "trust_score", 0)),
                                         ![r].grade = Some(Get(cv, "grade", "N/A"))]
                   /\ cache_log' = [NoCacheOp EXCEPT !.r = r, !.gate = kind]
              ELSE /\ analysis' = analysis
                   /\ run' = [run EXCEPT ![r].pc = "extract"]
                   /\ cache_log' = [NoCacheOp EXCEPT !.r = r, !.gate = kind]
    /\ UNCHANGED <<redis_connected, analysis_cache, instagram_cache, chord, cont, score_vars, api_vars, rate_vars>>

\* What get_post_info returned, for the history of a delivery.
FetchKind(fetched) ==
    IF IsNone(fetched) THEN "None"
    ELSE IF "error" \in DOMAIN Val(fetched) THEN "error" ELSE "post"

\* A chord whose members are given an empty post instead of the content at hand.
Dispatched_without_content(post_info) ==
    [NoChord EXCEPT !.dispatched = TRUE,
                    !.post_info = Some([type |-> "unknown", images |-> 0, videos |-> 0])]

\* The chord of lines 411-428, given the extracted post.
Dispatched(post_info) ==
    [NoChord EXCEPT !.dispatched = TRUE, !.post_info = Some(post_info)]

\* Lines 389-438: commit the content, dispatch the chord, return "processing".
\* When the row is gone the commit at 390 raises out of the task.
CommitAndDispatch(r, post_info, fetch) ==
    IF analysis.exists
    THEN /\ analysis' = [analysis EXCEPT !.content = post_info]
         /\ chord' = [chord EXCEPT ![r] = Dispatched(Val(post_info))]
         /\ run' = [run EXCEPT ![r].pc = "done", ![r].ret = "processing", ![r].fetch = fetch]
    ELSE /\ UNCHANGED <<analysis, chord>>
         /\ run' = [run EXCEPT ![r].pc = "done", ![r].ret = "raised", ![r].fetch = fetch]

\* process_instagram_post, lines 366-438: raw-content cache check, extraction,
\* raw-content cache write, commit of the content, dispatch of the chord.
Extract(r) ==
    /\ run[r].pc = "extract"
    /\ \E fault \in BOOLEAN, fetched \in FetchOutcomes, store_fault \in BOOLEAN :
          LET lookup == get_cached_instagram_content(redis_connected, fault, instagram_cache)
              kind == LookupKind(redis_connected, fault, instagram_cache)
              stored == cache_store(redis_connected, store_fault, instagram_cache,
                                    Val(fetched))
              store_kind == IF ~redis_connected \/ store_fault THEN "fault" ELSE "ok"
              log == [NoCacheOp EXCEPT !.r = r, !.raw = kind]
          IN  IF lookup.raised
              THEN /\ Failed(r, "redis error")
                   /\ cache_log' = [log EXCEPT !.raw = "raised"]
                   /\ UNCHANGED <<instagram_cache, chord>>
              ELSE IF ~IsNone(lookup.value)
              THEN \* raw-content hit: get_post_info is not called
                   /\ CommitAndDispatch(r, lookup.value, "none")
                   /\ cache_log' = log
                   /\ UNCHANGED instagram_cache
              ELSE IF extraction_failed(fetched)
              THEN /\ analysis' = mark_failed(analysis, extraction_error(fetched))
                   /\ run' = [run EXCEPT ![r].pc = "done", ![r].ret = "error",
                                         ![r].error = Some(extraction_error(fetched)),
                                         ![r].fetch = FetchKind(fetched)]
                   /\ cache_log' = log
                   /\ UNCHANGED <<instagram_cache, chord>>
              ELSE IF stored.raised
              THEN /\ Failed(r, "redis error")
                   /\ cache_log' = [log EXCEPT !.store = "raised"]
                   /\ UNCHANGED <<instagram_cache, chord>>
              ELSE /\ instagram_cache' = stored.value
                   /\ CommitAndDispatch(r, fetched, FetchKind(fetched))
                   /\ cache_log' = [log EXCEPT !.store = store_kind]
    /\ UNCHANGED <<redis_connected, analysis_cache, cont, score_vars, api_vars, rate_vars>>

\* task_soft_time_limit: SoftTimeLimitExceeded is raised inside the try block
\* and caught by `except Exception`; billiard gives it the text below.
SoftTimeLimit(r) ==
    /\ run[r].pc \in {"gate", "extract"}
    /\ Failed(r, "SoftTimeLimitExceeded()")
    /\ cache_log' = NoCacheOp
    /\ UNCHANGED <<redis_connected, analysis_cache, instagram_cache, chord, cont, score_vars, api_vars, rate_vars>>

\* The soft limit strikes after the chord call of line 418 and before the return
\* of 434: the except block marks the job failed while the group is in flight,
\* and the task returns the error instead of "processing".
LateSoftTimeLimit(r) ==
    /\ run[r].pc = "done" /\ run[r].ret = "processing"
    /\ Failed(r, "SoftTimeLimitExceeded()")
    /\ cache_log' = NoCacheOp
    /\ UNCHANGED <<redis_connected, analysis_cache, instagram_cache, chord, cont, score_vars, api_vars, rate_vars>>

\* task_time_limit (or a worker crash): the worker process is killed; no
\* handler runs and the task is acknowledged already, so it is not redelivered.
HardKill(r) ==
    /\ run[r].pc \in {"gate", "extract"}
    /\ run' = [run EXCEPT ![r].pc = "killed"]
    /\ cache_log' = NoCacheOp
    /\ UNCHANGED <<analysis, redis_connected, analysis_cache, instagram_cache, chord, cont,
                   score_vars, api_vars, rate_vars>>

Pending(r, m) == chord[r].dispatched /\ IsNone(chord[r].results[m]) /\ m \notin chord[r].lost

AllReported(r) == chord[r].dispatched /\ \A m \in Members : ~IsNone(chord[r].results[m])

\* A member of the group returns its result dict (its own except block turns an
\* exception into a failed result).
MemberReport(r, m) ==
    /\ Pending(r, m)
    /\ \E res \in member_outcomes(m, Val(chord[r].post_info)) :
          chord' = [chord EXCEPT ![r].results[m] = Some(res),
                                 ![r].first = IF @ = "none" THEN m ELSE @]
    /\ cache_log' = NoCacheOp
    /\ UNCHANGED <<analysis, redis_connected, analysis_cache, instagram_cache, run, cont,
                   score_vars, api_vars, rate_vars>>

\* A member is killed by task_time_limit or lost with its worker: it never reports.
MemberLost(r, m) ==
    /\ Pending(r, m)
    /\ chord' = [chord EXCEPT ![r].lost = @ \cup {m}]
    /\ cache_log' = NoCacheOp
    /\ UNCHANGED <<analysis, redis_connected, analysis_cache, instagram_cache, run, cont,
                   score_vars, api_vars, rate_vars>>

\* Time passes the group's wait budget while a member has not reported. The
\* chord is created without any timeout, so nothing else happens.
GroupWaitElapses(r) ==
    /\ chord[r].dispatched /\ ~AllReported(r) /\ ~chord[r].overdue
    /\ chord' = [chord EXCEPT ![r].overdue = TRUE]
    /\ cache_log' = NoCacheOp
    /\ UNCHANGED <<analysis, redis_connected, analysis_cache, instagram_cache, run, cont,
                   score_vars, api_vars, rate_vars>>

\* group([run_ai_detection.s(..), run_ocr_extraction.s(..), run_deepfake_detection.s(..)])
GroupOrder == << "ai_detection", "ocr", "deepfake" >>

\* The list the chord hands to its callback: the members' results in the order
\* of the group, whatever the order in which they finished.
parallel_results(ch) == [i \in 1..3 |-> Val(ch.results[GroupOrder[i]])]

\* An unpacking that takes the first two positions the other way round.
unpack_first_two_exchanged(results_list) ==
    [ai_detection |-> results_list[2], ocr |-> results_list[1], deepfake |-> results_list[3]]

\* complete_analysis, lines 58-60: ai_result, ocr_result, deepfake_result
unpack(results_list) ==
    [ai_detection |-> results_list[1], ocr |-> results_list[2], deepfake |-> results_list[3]]

\* int(time.time() - created_timestamp) of a fresh run
ProcessingTimes == {2, 30}

\* complete_analysis, one execution: dependent stages, scoring, update_results,
\* cache write; its except block marks the job failed.
complete_analysis(r) ==
    /\ \E fc_raises \in BOOLEAN, se_raises \in BOOLEAN, store_fault \in BOOLEAN,
          t \in ProcessingTimes :
          LET unpacked == unpack(parallel_results(chord[r]))
              fact_check_result == fact_check_stage(fc_raises)
              source_eval_result == source_eval_stage(se_raises)
              stages == [instagram_extraction |-> [status |-> "success"],
                         ai_detection |-> unpacked.ai_detection,
                         ocr |-> unpacked.ocr,
                         deepfake |-> unpacked.deepfake,
                         fact_check |-> fact_check_result,
                         claim_verification |-> [status |-> "skipped"],
                         source_credibility |-> source_eval_result]
              sc == score_call(stages)
          IN  IF sc.raised
              THEN /\ analysis' = mark_failed(analysis, sc.error)
                   /\ cont' = [cont EXCEPT ![r] = [runs |-> @.runs + 1, ret |-> "error",
                                                   parallel |-> Some(unpacked),
                                                   fact_check |-> Some(fact_check_result),
                                                   source |-> Some(source_eval_result),
                                                   claim_verification |->
                                                       Some(stages.claim_verification),
                                                   scored |-> FALSE, cached |-> FALSE,
                                                   trust_score |-> <<>>, grade |-> <<>>]]
                   /\ cache_log' = NoCacheOp
                   /\ UNCHANGED analysis_cache
              ELSE LET results ==
                           [instagram_extraction |-> stages.instagram_extraction,
                            ai_detection |-> stages.ai_detection,
                            ocr |-> stages.ocr,
                            deepfake |-> stages.deepfake,
                            fact_check |-> stages.fact_check,
                            claim_verification |-> stages.claim_verification,
                            source_credibility |-> stages.source_credibility,
                            trust_score_breakdown |->
                                [final_score |-> sc.value.final_score,
                                 grade |-> sc.value.grade]]
                       written == cache_store(redis_connected, store_fault, analysis_cache,
                                              [results |-> results,
                                               trust_score |-> sc.value.final_score,
                                               grade |-> sc.value.grade])
                   IN  /\ analysis' = update_results(analysis, results, sc.value.final_score,
                                                     t, chord[r].post_info)
                       /\ analysis_cache' = written.value
                       /\ cont' = [cont EXCEPT ![r] =
                                      [runs |-> @.runs + 1, ret |-> "success",
                                       parallel |-> Some(unpacked),
                                       fact_check |-> Some(fact_check_result),
                                       source |-> Some(source_eval_result),
                                       claim_verification |->
                                           Some(stages.claim_verification),
                                       scored |-> TRUE, cached |-> FALSE,
                                       trust_score |-> Some(sc.value.final_score),
                                       grade |-> Some(sc.value.grade)]]
                       /\ cache_log' = [NoCacheOp EXCEPT !.r = r,
                              !.store = IF ~redis_connected \/ store_fault
                                        THEN "fault" ELSE "ok"]
    /\ UNCHANGED <<redis_connected, instagram_cache, run, chord, score_vars, api_vars, rate_vars>>

\* The chord's callback: the broker delivers complete_analysis once every
\* member of the group has reported.
Continuation(r) ==
    /\ AllReported(r)
    /\ cont[r].runs < MaxContDeliver
    /\ complete_analysis(r)

\* The callback's message is delivered again after an execution that ran to its
\* end, with the same list of results and the same arguments.
ContinuationRedelivered(r) ==
    /\ AllReported(r)
    /\ cont[r].runs = MaxContDeliver
    /\ cont[r].ret \in {"success", "error"}
    /\ complete_analysis(r)

\* The worker running the continuation is killed (task_time_limit, crash).
ContinuationKilled(r) ==
    /\ AllReported(r)
    /\ cont[r].runs < MaxContDeliver
    /\ cont' = [cont EXCEPT ![r].runs = @ + 1, ![r].ret = "killed"]
    /\ cache_log' = NoCacheOp
    /\ UNCHANGED <<analysis, redis_connected, analysis_cache, instagram_cache, run, chord,
                   score_vars, api_vars, rate_vars>>

\* ==================================================================== API
\* The HTTP endpoints over the one post, with the worker's task seen from
\* outside: taken from the queue, its cache gate, the end of a fresh run.
\* Here `analysis` is the row of the post in table analyses (post_id is unique,
\* so there is at most one), row_id the id of the latest row created.

NoResponse == [endpoint |-> "none", code |-> 0, analysis_id |-> 0, status |-> "none",
               cached |-> FALSE, created |-> FALSE]

NoRow == [exists |-> FALSE, status |-> "pending", error_message |-> <<>>,
          results |-> <<>>, trust_score |-> <<>>, processing_time |-> <<>>,
          content |-> <<>>]

\* CRUDAnalysis.create: the row as inserted. Column post_id is unique, so the
\* commit raises IntegrityError while a row of the post is there.
create(row) ==
    IF row.exists
    THEN [raised |-> TRUE, row |-> row]
    ELSE [raised |-> FALSE, row |-> [NoRow EXCEPT !.exists = TRUE]]

\* CRUDAnalysis.get_by_id as seen by a request or task holding analysis_id
get_by_id(row, latest, analysis_id) ==
    IF row.exists /\ analysis_id = latest THEN Some(row) ELSE <<>>

\* `is_cached` of get_analysis_results: a processing time of at most 2 seconds.
is_cached(row) ==
    ~IsNone(row.processing_time) /\ Val(row.processing_time) <= 2

\* What process_instagram_post.delay can raise (the broker is unreachable).
DispatchErrors == {"", "Connection refused"}

\* analyze_instagram_post: POST /analyze for the post's URL.
Submit ==
    /\ invalidated' = FALSE
    /\ IF analysis.exists /\ analysis.status \in {"completed", "pending", "processing"}
       THEN /\ response' = [endpoint |-> "analyze", code |-> 202, analysis_id |-> row_id,
                            status |-> analysis.status, cached |-> FALSE,
                            created |-> FALSE]
            /\ UNCHANGED <<analysis, row_id, queue>>
       ELSE LET made == create(analysis) IN
            IF made.raised
            THEN /\ response' = [endpoint |-> "analyze", code |-> 500, analysis_id |-> 0,
                                 status |-> "none", cached |-> FALSE, created |-> FALSE]
                 /\ UNCHANGED <<analysis, row_id, queue>>
            ELSE /\ row_id < MaxRows
                 /\ row_id' = row_id + 1
                 /\ \/ /\ analysis' = made.row
                       /\ queue' = queue \cup {row_id'}
                       /\ response' = [endpoint |-> "analyze", code |-> 202,
                                       analysis_id |-> row_id', status |-> "pending",
                                       cached |-> FALSE, created |-> TRUE]
                    \/ \E e \in DispatchErrors :
                       /\ analysis' = mark_failed(made.row, "Failed to submit task: " \o e)
                       /\ queue' = queue
                       /\ response' = [endpoint |-> "analyze", code |-> 500,
                                       analysis_id |-> 0, status |-> "none",
                                       cached |-> FALSE, created |-> TRUE]
    /\ UNCHANGED <<redis_connected, analysis_cache, instagram_cache, working, provenance>>
    /\ UNCHANGED <<run, chord, cont, cache_log, score_vars, rate_vars>>

\* get_analysis_results: GET /results/{analysis_id}
GetResults(analysis_id) ==
    /\ LET found == get_by_id(analysis, row_id, analysis_id) IN
       response' = IF IsNone(found)
                   THEN [endpoint |-> "results", code |-> 404, analysis_id |-> analysis_id,
                         status |-> "none", cached |-> FALSE, created |-> FALSE]
                   ELSE [endpoint |-> "results", code |-> 200, analysis_id |-> analysis_id,
                         status |-> Val(found).status, cached |-> is_cached(Val(found)),
                         created |-> FALSE]
    /\ UNCHANGED <<analysis, redis_connected, analysis_cache, instagram_cache, row_id, queue,
                   working, provenance, invalidated>>
    /\ UNCHANGED <<run, chord, cont, cache_log, score_vars, rate_vars>>

\* delete_analysis: DELETE /results/{analysis_id}
DeleteAnalysis(analysis_id) ==
    /\ LET found == get_by_id(analysis, row_id, analysis_id) IN
       IF IsNone(found)
       THEN /\ response' = [endpoint |-> "delete", code |-> 404, analysis_id |-> analysis_id,
                            status |-> "none", cached |-> FALSE, created |-> FALSE]
            /\ UNCHANGED <<analysis, provenance>>
       ELSE /\ response' = [endpoint |-> "delete", code |-> 200, analysis_id |-> analysis_id,
                            status |-> "none", cached |-> FALSE, created |-> FALSE]
            /\ analysis' = NoRow
            /\ provenance' = "none"
    /\ UNCHANGED <<redis_connected, analysis_cache, instagram_cache, row_id, queue, working,
                   invalidated>>
    /\ UNCHANGED <<run, chord, cont, cache_log, score_vars, rate_vars>>

\* invalidate_analysis_cache: DELETE /cache/analysis/{instagram_url}, with
\* CacheManager.invalidate_analysis (False without a connection or on an error).
InvalidateAnalysisCache ==
    /\ \E fault \in BOOLEAN :
          IF redis_connected /\ ~fault
          THEN /\ analysis_cache' = <<>>
               /\ invalidated' = TRUE
               /\ response' = [endpoint |-> "invalidate", code |-> 200, analysis_id |-> 0,
                               status |-> "success", cached |-> FALSE, created |-> FALSE]
          ELSE /\ UNCHANGED <<analysis_cache, invalidated>>
               /\ response' = [endpoint |-> "invalidate", code |-> 500, analysis_id |-> 0,
                               status |-> "none", cached |-> FALSE, created |-> FALSE]
    /\ UNCHANGED <<analysis, redis_connected, instagram_cache, row_id, queue, working,
                   provenance>>
    /\ UNCHANGED <<run, chord, cont, cache_log, score_vars, rate_vars>>

\* clear_cache: DELETE /cache/clear, with CacheManager.clear_all_cache (both
\* key families are deleted).
ClearCache ==
    /\ \E fault \in BOOLEAN :
          IF redis_connected /\ ~fault
          THEN /\ analysis_cache' = <<>>
               /\ instagram_cache' = <<>>
               /\ invalidated' = TRUE
               /\ response' = [endpoint |-> "clear", code |-> 200, analysis_id |-> 0,
                               status |-> "success", cached |-> FALSE, created |-> FALSE]
          ELSE /\ UNCHANGED <<analysis_cache, instagram_cache, invalidated>>
               /\ response' = [endpoint |-> "clear", code |-> 500, analysis_id |-> 0,
                               status |-> "none", cached |-> FALSE, created |-> FALSE]
    /\ UNCHANGED <<analysis, redis_connected, row_id, queue, working, provenance>>
    /\ UNCHANGED <<run, chord, cont, cache_log, score_vars, rate_vars>>

\* process_instagram_post, lines 325-332: a worker takes the task of
\* analysis_id; the row, if found, is committed as processing.
TaskStart(analysis_id) ==
    /\ analysis_id \in queue
    /\ working = 0
    /\ queue' = queue \ {analysis_id}
    /\ IF IsNone(get_by_id(analysis, row_id, analysis_id))
       THEN UNCHANGED <<analysis, working>>
       ELSE /\ analysis' = [analysis EXCEPT !.status = "processing"]
            /\ working' = analysis_id
    /\ UNCHANGED <<redis_connected, analysis_cache, instagram_cache, row_id, response,
                   provenance, invalidated>>
    /\ UNCHANGED <<run, chord, cont, cache_log, score_vars, rate_vars>>

\* What a run without a cache hit records when it fails: the extraction error,
\* the soft time limit, the error of the continuation's call of the calculator.
FreshRunErrors ==
    { extraction_error(Some(ErrorInfo)), "SoftTimeLimitExceeded()" }
    \cup (IF score_call(EmptyDict).raised THEN {score_call(EmptyDict).error} ELSE {})

\* The row after a write of the task of analysis_id (the writes filter by id).
TaskWrite(analysis_id, written) ==
    IF IsNone(get_by_id(analysis, row_id, analysis_id)) THEN analysis ELSE written

\* process_instagram_post from the cache gate on (lines 334-450) and
\* complete_analysis (lines 204-304), as the row and the cache see them: a hit
\* completes the job from the cached value with processing_time 1; otherwise the
\* run fails with its error, is killed, or (if the calculator call returns)
\* completes with the measured processing time and stores the value.
TaskEnd ==
    /\ working /= 0
    /\ working' = 0
    /\ \E fault \in BOOLEAN :
          LET cached_result == get_cached_analysis(redis_connected, fault, analysis_cache) IN
          IF ~IsNone(cached_result.value)
          THEN LET cv == Val(cached_result.value) IN
               /\ analysis' = TaskWrite(working,
                                 update_results(analysis, Get(cv, "results", EmptyDict),
                                                Get(cv, "trust_score", 0), 1, <<>>))
               /\ provenance' = IF analysis' /= analysis THEN "cache" ELSE provenance
               /\ UNCHANGED analysis_cache
          ELSE \/ \E e \in FreshRunErrors :
                    /\ analysis' = TaskWrite(working, mark_failed(analysis, e))
                    /\ UNCHANGED <<analysis_cache, provenance>>
               \/ UNCHANGED <<analysis, analysis_cache, provenance>>
               \/ /\ ~score_call(EmptyDict).raised
                  /\ \E cv \in CachedValues, t \in ProcessingTimes, store_fault \in BOOLEAN :
                        /\ analysis' = TaskWrite(working,
                                          update_results(analysis, cv.results,
                                                         cv.trust_score, t, <<>>))
                        /\ provenance' = IF analysis' /= analysis THEN "fresh"
                                         ELSE provenance
                        /\ analysis_cache' = cache_store(redis_connected, store_fault,
                                                         analysis_cache, cv).value
    /\ UNCHANGED <<redis_connected, instagram_cache, row_id, queue, response, invalidated>>
    /\ UNCHANGED <<run, chord, cont, cache_log, score_vars, rate_vars>>

ApiIdle ==
    /\ row_id = 0
    /\ queue = {}
    /\ working = 0
    /\ response = NoResponse
    /\ provenance = "none"
    /\ invalidated = FALSE

\* Rows and cache entries left by earlier requests: no row, a failed job, a job
\* completed by the cache gate (processing_time 1), a job completed by
\* complete_analysis (processing_time as measured).
EarlierRows ==
    { <<NoRow, "none">>,
      <<mark_failed([NoRow EXCEPT !.exists = TRUE], "SoftTimeLimitExceeded()"), "none">> }
    \cup { << update_results([NoRow EXCEPT !.exists = TRUE], cv.results, cv.trust_score,
                             1, <<>>), "cache" >> : cv \in CachedValues }
    \cup { << update_results([NoRow EXCEPT !.exists = TRUE], cv.results, cv.trust_score,
                             t, <<>>), "fresh" >> :
           cv \in CachedValues, t \in ProcessingTimes }

ApiInit ==
    /\ \E er \in EarlierRows :
          /\ analysis = er[1]
          /\ provenance = er[2]
          /\ row_id = IF er[1].exists THEN 1 ELSE 0
    /\ redis_connected \in BOOLEAN
    /\ analysis_cache \in {<<>>} \cup {Some(v) : v \in CachedValues}
    /\ instagram_cache \in {<<>>} \cup {Some(p) : p \in PostInfos}
    /\ (~redis_connected => IsNone(analysis_cache) /\ IsNone(instagram_cache))
    /\ run = [r \in Runs |-> NewRun]
    /\ chord = [r \in Runs |-> NoChord]
    /\ cont = [r \in Runs |-> NoCont]
    /\ cache_log = NoCacheOp
    /\ queue = {}
    /\ working = 0
    /\ response = NoResponse
    /\ invalidated = FALSE

\* =========================================================== rate limiter
\* InMemoryRateLimiter over a clock of whole ticks. The limiter's constants are
\* taken small: the code's windows are 60 and 3600 seconds, its limits 10 and
\* 100 requests (settings.RATE_LIMIT_PER_MINUTE / _PER_HOUR), its cleanup
\* interval 100 calls. A call of is_allowed is one step at one instant.

IPs == {"10.0.0.1", "10.0.0.2"}

CountAfter(timestamps, t) == Len(SelectSeq(timestamps, LAMBDA ts : ts > t))

RECURSIVE MinOf(_)
MinOf(timestamps) ==
    IF Len(timestamps) = 1 THEN timestamps[1]
    ELSE LET m == MinOf(Tail(timestamps)) IN
         IF Head(timestamps) < m THEN Head(timestamps) ELSE m

\* A cleanup that keeps the last minute only.
cleanup_entries_older_than_a_minute(history, current_time) ==
    LET kept == [ip \in DOMAIN history |->
                    SelectSeq(history[ip], LAMBDA ts : ts > current_time - MinuteWindow)]
        live == {ip \in DOMAIN history : kept[ip] /= <<>>}
    IN  [ip \in live |-> kept[ip]]

\* _cleanup_old_entries: timestamps older than an hour go, then IPs left empty.
cleanup_old_entries(history, current_time) ==
    LET kept == [ip \in DOMAIN history |->
                    SelectSeq(history[ip], LAMBDA ts : ts > current_time - HourWindow)]
        live == {ip \in DOMAIN history : kept[ip] /= <<>>}
    IN  [ip \in live |-> kept[ip]]

\* self.request_history[ip] on a defaultdict(list): a missing key is inserted
\* with an empty list.
touch(history, ip) ==
    IF ip \in DOMAIN history THEN history
    ELSE [k \in DOMAIN history \cup {ip} |-> IF k = ip THEN <<>> ELSE history[k]]

\* InMemoryRateLimiter.is_allowed(ip) at the instant `clock`
is_allowed(ip) ==
    LET current_time == clock
        counted == cleanup_counter + 1
        cleans == counted >= cleanup_interval
        cleaned == IF cleans THEN cleanup_old_entries(request_history, current_time)
                   ELSE request_history
        history == touch(cleaned, ip)
        timestamps == history[ip]
        minute_ago == current_time - MinuteWindow
        hour_ago == current_time - HourWindow
        requests_last_minute == CountAfter(timestamps, minute_ago)
        requests_last_hour == CountAfter(timestamps, hour_ago)
        minute_timestamps == SelectSeq(timestamps, LAMBDA ts : ts > minute_ago)
        hour_timestamps == SelectSeq(timestamps, LAMBDA ts : ts > hour_ago)
    IN  /\ cleanup_counter' = IF cleans THEN 0 ELSE counted
        /\ IF requests_last_minute >= requests_per_minute /\ minute_timestamps /= <<>>
           THEN /\ request_history' = history
                /\ admitted' = admitted
                /\ verdict' = [ip |-> ip, allowed |-> FALSE,
                               retry_after |->
                                   MinuteWindow - (current_time - MinOf(minute_timestamps)) + 1,
                               reason |-> "per-minute limit exceeded", cleaned |-> cleans]
           ELSE IF requests_last_hour >= requests_per_hour /\ hour_timestamps /= <<>>
           THEN /\ request_history' = history
                /\ admitted' = admitted
                /\ verdict' = [ip |-> ip, allowed |-> FALSE,
                               retry_after |->
                                   HourWindow - (current_time - MinOf(hour_timestamps)) + 1,
                               reason |-> "per-hour limit exceeded", cleaned |-> cleans]
           ELSE /\ request_history' = [history EXCEPT ![ip] = Append(@, current_time)]
                /\ admitted' = [admitted EXCEPT ![ip] = Append(@, current_time)]
                /\ verdict' = [ip |-> ip, allowed |-> TRUE, retry_after |-> 0,
                               reason |-> "allowed", cleaned |-> cleans]
        /\ UNCHANGED clock
        /\ UNCHANGED <<pipe_vars, score_vars, api_vars>>

\* time.time() moves on between calls.
Tick ==
    /\ clock < MaxTime
    /\ clock' = clock + 1
    /\ UNCHANGED <<request_history, cleanup_counter, admitted, verdict>>
    /\ UNCHANGED <<pipe_vars, score_vars, api_vars>>

NoVerdict == [ip |-> "none", allowed |-> FALSE, retry_after |-> 0, reason |-> "none",
              cleaned |-> FALSE]

RateIdle ==
    /\ clock = 0
    /\ request_history = <<>>
    /\ cleanup_counter = 0
    /\ admitted = [ip \in IPs |-> <<>>]
    /\ verdict = NoVerdict

ScoreIdle ==
    /\ bundle = EmptyDict
    /\ config = DEFAULT_CONFIG
    /\ score_result = <<>>
    /\ scores = <<0, 0>>
    /\ grades = <<>>

PipeIdle ==
    /\ analysis = [exists |-> FALSE, status |-> "pending", error_message |-> <<>>,
                   results |-> <<>>, trust_score |-> <<>>, processing_time |-> <<>>,
                   content |-> <<>>]
    /\ redis_connected = FALSE
    /\ analysis_cache = <<>>
    /\ instagram_cache = <<>>
    /\ run = [r \in Runs |-> NewRun]
    /\ chord = [r \in Runs |-> NoChord]
    /\ cont = [r \in Runs |-> NoCont]
    /\ cache_log = NoCacheOp

Init == PipeInit /\ ScoreIdle /\ ApiIdle /\ RateIdle

Next ==
    \/ \E r \in Runs : Deliver(r)
    \/ \E r \in Runs : CacheGate(r)
    \/ \E r \in Runs : Extract(r)
    \/ \E r \in Runs : SoftTimeLimit(r)
    \/ \E r \in Runs : HardKill(r)
    \/ \E r \in Runs, m \in Members : MemberReport(r, m)
    \/ \E r \in Runs, m \in Members : MemberLost(r, m)
    \/ \E r \in Runs : GroupWaitElapses(r)
    \/ \E r \in Runs : Continuation(r)
    \/ \E r \in Runs : ContinuationKilled(r)

Spec == Init /\ [][Next]_vars

\* The scoring engine alone: every modelled bundle and configuration, scored once.
ScoreNext == ScoreCalculate /\ UNCHANGED <<pipe_vars, api_vars, rate_vars>>

ScoreSpecInit == PipeIdle /\ ApiIdle /\ RateIdle /\ ScoreInit

ScoreSpec == ScoreSpecInit /\ [][ScoreNext]_vars

\* The grade table alone: every modelled pair of scores and threshold table.
GradeNext == GradeLookup /\ UNCHANGED <<pipe_vars, api_vars, rate_vars>>

GradeSpecInit == PipeIdle /\ ApiIdle /\ RateIdle /\ GradeInit

GradeSpec == GradeSpecInit /\ [][GradeNext]_vars

\* The credibility rule of _process_fact_checking alone: every sub-score in
\* [0,100] under the default weights and under weights with another low,
\* questionable or high threshold (FactCheckWeights are plain fields).
CredibilityScores == 0..100

CredibilityConfigs ==
    { DEFAULT_CONFIG,
      [DEFAULT_CONFIG EXCEPT !.low_credibility_threshold = 60],
      [DEFAULT_CONFIG EXCEPT !.questionable_threshold = 75,
                             !.questionable_multiplier = 1000],
      [DEFAULT_CONFIG EXCEPT !.high_credibility_threshold = 72,
                             !.high_credibility_multiplier = 500] }

CredibilityInit ==
    /\ \E sc \in CredibilityScores :
          bundle = [fact_check |-> build_fact_check_result(sc, {})]
    /\ config \in CredibilityConfigs
    /\ score_result = <<>>
    /\ scores = <<0, 0>>
    /\ grades = <<>>

CredibilitySpecInit == PipeIdle /\ ApiIdle /\ RateIdle /\ CredibilityInit

CredibilitySpec == CredibilitySpecInit /\ [][ScoreNext]_vars

\* The rate limiter alone: calls of is_allowed for two addresses, and the clock.
RateNext ==
    \/ \E ip \in IPs : is_allowed(ip)
    \/ Tick

RateSpecInit == PipeIdle /\ ScoreIdle /\ ApiIdle /\ RateIdle

RateSpec == RateSpecInit /\ [][RateNext]_vars

\* The endpoints and the worker's task over the one post.
ApiNext ==
    \/ Submit
    \/ \E id \in 1..MaxRows : GetResults(id)
    \/ \E id \in 1..MaxRows : DeleteAnalysis(id)
    \/ InvalidateAnalysisCache
    \/ ClearCache
    \/ \E id \in 1..MaxRows : TaskStart(id)
    \/ TaskEnd

ApiSpecInit == ApiInit /\ ScoreIdle /\ RateIdle

ApiSpec == ApiSpecInit /\ [][ApiNext]_vars

\* One delivery of the task, with the soft limit also striking after the
\* dispatch: the job is marked failed while its group and continuation are due.
CancelNext ==
    \/ Deliver(1)
    \/ CacheGate(1)
    \/ Extract(1)
    \/ SoftTimeLimit(1)
    \/ LateSoftTimeLimit(1)
    \/ HardKill(1)
    \/ \E m \in Members : MemberReport(1, m)
    \/ \E m \in Members : MemberLost(1, m)
    \/ GroupWaitElapses(1)
    \/ Continuation(1)
    \/ ContinuationKilled(1)

CancelSpec == Init /\ [][CancelNext]_vars

\* One delivery of the task, whose continuation is delivered a second time.
RedeliveryNext ==
    \/ Deliver(1)
    \/ CacheGate(1)
    \/ Extract(1)
    \/ SoftTimeLimit(1)
    \/ HardKill(1)
    \/ \E m \in Members : MemberReport(1, m)
    \/ \E m \in Members : MemberLost(1, m)
    \/ GroupWaitElapses(1)
    \/ Continuation(1)
    \/ ContinuationKilled(1)
    \/ ContinuationRedelivered(1)

RedeliverySpec == Init /\ [][RedeliveryNext]_vars

\* The same, from a deployment whose Redis holds no entry yet: whatever the
\* caches hold later was written by this job.
ColdInit ==
    /\ Init
    /\ IsNone(analysis_cache) /\ IsNone(instagram_cache)

ColdSpec == ColdInit /\ [][RedeliveryNext]_vars

\* ---------------------------------------------------------------- properties
Terminal == {"completed", "failed"}

\* C1: once the persisted status is completed or failed, no later step changes
\* it (a redelivered process_instagram_post, a late continuation, an except block).
TerminalStatusIsFinal ==
    [][analysis.status \in Terminal => analysis'.status = analysis.status]_vars

\* C2: no silent hang. A job in processing always has a step of the pipeline
\* still to come: when no task, member or continuation of it can run any more,
\* its status is completed or failed.
NoSilentHang ==
    analysis.status = "processing" => ENABLED Next

\* The step of delivery r in which get_post_info returned nothing or an error dict.
ExtractionFailureStep(r) ==
    run[r].pc = "extract" /\ run'[r].fetch \in {"None", "error"}

GroupTimeoutFailsJob ==
    \A r \in Runs : chord[r].overdue =>
        /\ analysis.status = "failed"
        /\ analysis.error_message = Some("timeout")
        /\ cont[r].runs = 0

\* The analyzers of a run that raised: group members and dependent stages whose
\* result dict has status failed.
FailedAnalyzers(ch, co) ==
    {m \in Members : ~IsNone(ch.results[m])
                      /\ Get(Val(ch.results[m]), "status", "") = "failed"}
    \cup (IF ~IsNone(co.fact_check) /\ Get(Val(co.fact_check), "status", "") = "failed"
          THEN {"fact_check"} ELSE {})
    \cup (IF ~IsNone(co.source) /\ Get(Val(co.source), "status", "") = "failed"
          THEN {"source_credibility"} ELSE {})

\* C5: non-fatal isolation. When complete_analysis runs to its end for a job in
\* which exactly one analyzer (AI detection, OCR, deepfake, fact-checking, source
\* evaluation) raised, the job is completed and the persisted bundle holds that
\* stage with status failed and its error string.
NonFatalIsolation ==
    [][\A r \in Runs :
          ( /\ cont'[r].runs = cont[r].runs + 1
            /\ cont'[r].ret # "killed"
            /\ Cardinality(FailedAnalyzers(chord'[r], cont'[r])) = 1 ) =>
          /\ analysis'.status = "completed"
          /\ ~IsNone(analysis'.results)
          /\ \A a \in FailedAnalyzers(chord'[r], cont'[r]) :
                LET stage == Get(Val(analysis'.results), a, EmptyDict) IN
                Get(stage, "status", "") = "failed" /\ Get(stage, "error", "") # ""]_vars

\* The step of delivery r in which the whole-pipeline lookup found a value.
CacheHitStep(r) ==
    run[r].pc = "gate" /\ cache_log'.r = r /\ cache_log'.gate = "hit"

\* C6: a hit on the whole-pipeline key short-circuits the job. The step persists
\* the cached results and trust score, sets status completed and returns with
\* cached = True and the cached score and grade; it makes no extraction, starts
\* no group and writes no cache; no analyzer or scoring ever runs for that delivery.
CacheHitShortCircuits ==
    /\ [][\A r \in Runs : CacheHitStep(r) =>
              /\ ~IsNone(analysis_cache)
              /\ analysis'.status = "completed"
              /\ analysis'.results = Some(Val(analysis_cache).results)
              /\ analysis'.trust_score = Some(Val(analysis_cache).trust_score)
              /\ analysis'.content = analysis.content
              /\ run'[r].pc = "done" /\ run'[r].ret = "success" /\ run'[r].cached
              /\ run'[r].trust_score = Some(Val(analysis_cache).trust_score)
              /\ run'[r].grade = Some(Val(analysis_cache).grade)
              /\ run'[r].fetch = "none"
              /\ chord' = chord /\ cont' = cont
              /\ analysis_cache' = analysis_cache
              /\ instagram_cache' = instagram_cache]_vars
    /\ [](\A r \in Runs : run[r].cached =>
              /\ run[r].fetch = "none"
              /\ chord[r] = NoChord
              /\ cont[r] = NoCont)

\* C6 witness: a delivery served from the whole-pipeline cache has returned and
\* the row holds the cached score.
CacheHitReached ==
    \E r \in Runs :
        /\ run[r].cached /\ run[r].pc = "done"
        /\ ~IsNone(analysis_cache)
        /\ analysis.status = "completed"
        /\ analysis.trust_score = Some(Val(analysis_cache).trust_score)

\* The first of two runs went through the whole pipeline: its continuation ran
\* to its end, and where it reached the pipeline-cache write the value is stored.
FreshRunFinished(r) ==
    /\ cont[r].runs > 0
    /\ cont[r].ret # "killed"
    /\ redis_connected
    /\ (cont[r].ret = "success" => ~IsNone(analysis_cache))

GateFaultStep(r) ==
    run[r].pc = "gate" /\ cache_log'.r = r /\ cache_log'.gate = "fault"

RawFaultStep(r) ==
    run[r].pc = "extract" /\ cache_log'.r = r /\ cache_log'.raw = "fault"

RawStoreFaultStep(r) ==
    run[r].pc = "extract" /\ cache_log'.r = r /\ cache_log'.store = "fault"

ResultStoreFaultStep(r) ==
    cont'[r].runs = cont[r].runs + 1 /\ cache_log'.r = r /\ cache_log'.store = "fault"

\* C8: the cache is advisory. No cache operation raises into a task; a faulting
\* lookup returns what a lookup in an empty cache returns and a faulting store
\* leaves the cache as it was. A fault at the whole-pipeline lookup sends the
\* task on to extraction with the row untouched; a fault at the raw-content
\* lookup makes the task call get_post_info, and the job fails in that step only
\* when get_post_info returned nothing or an error; a fault at a store lets the
\* step end as without it (group dispatched, or job completed). No job's error
\* is a cache error.
CacheIsAdvisory ==
    /\ [](/\ cache_log.gate # "raised" /\ cache_log.raw # "raised"
          /\ cache_log.store # "raised"
          /\ analysis.error_message # Some("redis error")
          /\ \A connected \in BOOLEAN :
                /\ get_cached_analysis(connected, TRUE, analysis_cache)
                     = get_cached_analysis(TRUE, FALSE, <<>>)
                /\ get_cached_analysis(FALSE, FALSE, analysis_cache)
                     = get_cached_analysis(TRUE, FALSE, <<>>)
                /\ get_cached_instagram_content(connected, TRUE, instagram_cache)
                     = get_cached_instagram_content(TRUE, FALSE, <<>>)
                /\ get_cached_instagram_content(FALSE, FALSE, instagram_cache)
                     = get_cached_instagram_content(TRUE, FALSE, <<>>)
                /\ cache_store(connected, TRUE, instagram_cache, ErrorInfo)
                     = [raised |-> FALSE, value |-> instagram_cache])
    /\ [][\A r \in Runs : GateFaultStep(r) =>
              /\ run'[r] = [run[r] EXCEPT !.pc = "extract"]
              /\ analysis' = analysis
              /\ chord' = chord /\ cont' = cont
              /\ analysis_cache' = analysis_cache
              /\ instagram_cache' = instagram_cache]_vars
    /\ [][\A r \in Runs : RawFaultStep(r) =>
              /\ run'[r].fetch # "none"
              /\ run'[r].pc = "done"
              /\ (analysis'.status = "failed" <=> run'[r].fetch \in {"None", "error"})
              /\ (run'[r].fetch = "post" =>
                     chord'[r].dispatched /\ run'[r].ret = "processing")]_vars
    /\ [][\A r \in Runs : RawStoreFaultStep(r) =>
              /\ instagram_cache' = instagram_cache
              /\ run'[r].fetch = "post"
              /\ chord'[r].dispatched
              /\ run'[r].pc = "done" /\ run'[r].ret = "processing"
              /\ analysis'.status = analysis.status]_vars
    /\ [][\A r \in Runs : ResultStoreFaultStep(r) =>
              /\ analysis_cache' = analysis_cache
              /\ analysis'.status = "completed"
              /\ cont'[r].ret = "success"]_vars

\* C8 witness: a delivery whose raw-content lookup and store both faulted has
\* dispatched its group, and the job is in processing.
CacheFaultsSurvived ==
    \E r \in Runs :
        /\ cache_log.r = r
        /\ cache_log.raw = "fault" /\ cache_log.store = "fault"
        /\ run[r].fetch = "post" /\ run[r].ret = "processing"
        /\ chord[r].dispatched
        /\ analysis.status = "processing"

\* base_score + the sum of the impacts of the adjustments a result lists
RawScore(cfg, res) == cfg.base_score + SumImpacts(res.adjustments)

\* C9 as stated: for every bundle and configuration, final_score is exactly
\* clamp(base_score + sum of adjustment impacts, 0, 100).
FinalScoreIsClampedSum ==
    score_result # <<>> =>
        score_result[1].final_score = Clamp(RawScore(config, score_result[1]))

\* C9 amended: for every bundle and configuration, final_score is
\* clamp(base_score + sum of adjustment impacts, 0, 100) rounded to two
\* decimals, hence 0 <= final_score <= 100.
FinalScoreIsRoundedClampedSum ==
    score_result # <<>> =>
        /\ score_result[1].final_score = Round2(Clamp(RawScore(config, score_result[1])))
        /\ 0 <= score_result[1].final_score
        /\ score_result[1].final_score <= 100000

\* C9 witness: a bundle has been scored whose penalties take the sum below 0,
\* and the result reports 0.
ClampedScoreReached ==
    /\ score_result # <<>>
    /\ RawScore(config, score_result[1]) < 0
    /\ score_result[1].final_score = 0

\* C10: the grade of a result is the grade the threshold table of the
\* configuration assigns to the reported (rounded) final_score.
GradeMatchesFinalScore ==
    score_result # <<>> =>
        score_result[1].grade = get_grade_from_score(score_result[1].final_score, config)

\* The grades from worst to best.
GradeOrder == << "F", "D-", "D", "D+", "C-", "C", "C+", "B-", "B", "B+", "A-", "A", "A+" >>

GradeRank(g) == CHOOSE i \in DOMAIN GradeOrder : GradeOrder[i] = g

\* C11: get_grade_from_score is total and non-decreasing. Every score in
\* [0, 100] gets exactly one grade of A+ .. F, and for scores s1 < s2 the grade
\* of s1 is never strictly better than the grade of s2, under every threshold table.
GradeIsMonotonicStep ==
    grades # <<>> =>
        /\ \A i \in {1, 2} : grades[i] \in Range(GradeOrder)
        /\ (scores[1] < scores[2] => GradeRank(grades[1]) <= GradeRank(grades[2]))
        /\ (scores[1] = scores[2] => grades[1] = grades[2])

\* C11 witness: two scores on either side of a threshold have been looked up
\* and got different grades, the lower score the lower grade.
GradeStepReached ==
    /\ grades # <<>>
    /\ scores = <<89999, 90000>>
    /\ grades = << "A-", "A" >>

\* The keys of the results dictionary the calculator reads, and the component
\* name each stage's adjustments carry.
Stages == {"ai_detection", "ocr", "deepfake", "fact_check", "source_credibility"}

ComponentOf(k) ==
    CASE k = "ai_detection" -> "AI Detection"
      [] k = "ocr" -> "OCR"
      [] k = "deepfake" -> "Deepfake Detection"
      [] k = "fact_check" -> "Fact-Checking"
      [] k = "source_credibility" -> "Source Credibility"

Without(results, k) == [j \in DOMAIN results \ {k} |-> results[j]]

Degraded(results, k) ==
    k \in DOMAIN results /\ Get(results[k], "status", None) \in {"skipped", "failed"}

\* C12: degraded-signal neutrality. For every stage whose result is skipped or
\* failed, and whatever the other stages hold, the result is the one the
\* calculator gives for the bundle without that stage's key (same adjustments,
\* final score, grade, totals, flags, requires_review), and no adjustment
\* carries that stage's component.
DegradedSignalNeutral ==
    score_result # <<>> =>
        \A k \in Stages : Degraded(bundle, k) =>
            /\ score_result[1] = calculate_trust_score(Without(bundle, k), config)
            /\ \A a \in Range(score_result[1].adjustments) : a.component # ComponentOf(k)

\* C12 witness: a bundle with a failed AI detection and a skipped fact check has
\* been scored, and other stages did contribute adjustments.
DegradedBundleScored ==
    /\ score_result # <<>>
    /\ Degraded(bundle, "ai_detection")
    /\ bundle["ai_detection"].status = "failed"
    /\ Degraded(bundle, "fact_check")
    /\ bundle["fact_check"].status = "skipped"
    /\ score_result[1].adjustments # <<>>

\* The adjustments of a result that carry a component name.
AdjustmentsOf(res, component) ==
    SelectSeq(res.adjustments, LAMBDA a : a.component = component)

Skipped == [status |-> "skipped", reason |-> "No images in post"]

\* Scenario A: flagged synthetic with confidence 0.8, every other stage skipped.
ScenarioA ==
    [ai_detection |-> [status |-> "completed",
                       overall |-> [overall_ai_detected |-> TRUE, confidence |-> 8000]],
     ocr |-> Skipped,
     deepfake |-> [status |-> "skipped", reason |-> "No videos or images to analyze"],
     fact_check |-> [status |-> "skipped", reason |-> "No text"],
     source_credibility |-> [status |-> "skipped", reason |-> "No sources"]]

ScenarioB ==
    [ai_detection |-> [status |-> "skipped", reason |-> "No images in post"],
     ocr |-> Skipped,
     deepfake |-> [status |-> "completed", is_deepfake |-> TRUE],
     fact_check |-> [status |-> "skipped", reason |-> "No text"],
     source_credibility |-> [status |-> "skipped", reason |-> "No sources"]]

ReputationExclusive ==
    score_result # <<>> =>
        LET source_cred == Get(bundle, "source_credibility", EmptyDict)
            assessment == Get(source_cred, "assessment", EmptyDict)
            avg == Get(assessment, "avg_reliability_score", 5000)
            mine == AdjustmentsOf(score_result[1], "Source Credibility")
        IN  /\ Len(mine) <= 1
            /\ Get(source_cred, "status", None) = "completed" =>
                  IF Get(assessment, "has_conspiracy", FALSE)
                  THEN mine = << Adjustment("Source Credibility", "Conspiracy Sources",
                                            -config.conspiracy_sources_penalty) >>
                  ELSE IF Get(assessment, "has_unreliable_sources", FALSE)
                  THEN mine = << Adjustment("Source Credibility", "Unreliable Sources",
                                            -config.unreliable_sources_penalty) >>
                  ELSE IF Get(assessment, "has_satire", FALSE)
                  THEN mine = << Adjustment("Source Credibility", "Satire Content",
                                            -config.satire_penalty) >>
                  ELSE IF avg < config.low_reliability_threshold
                  THEN /\ Len(mine) = 1
                       /\ mine[1].category = "Low Source Reliability"
                       /\ mine[1].impact < 0
                  ELSE IF avg > config.high_reliability_threshold
                  THEN /\ Len(mine) = 1
                       /\ mine[1].category = "High Source Reliability"
                       /\ mine[1].impact > 0
                  ELSE mine = <<>>

\* C15 witness: a completed source result with conspiracy, unreliable and
\* satire sources all present has been scored, and only the conspiracy penalty
\* is among the adjustments.
ConspiracyDominates ==
    /\ score_result # <<>>
    /\ "source_credibility" \in DOMAIN bundle
    /\ bundle["source_credibility"].status = "completed"
    /\ bundle["source_credibility"].assessment.has_conspiracy
    /\ bundle["source_credibility"].assessment.has_unreliable_sources
    /\ bundle["source_credibility"].assessment.has_satire
    /\ Len(AdjustmentsOf(score_result[1], "Source Credibility")) = 1

\* ---------------------------------------------------------------------------
\* C16  For every completed claim-analysis result the fact-checking stage
\* builds (its review verdict is the one the service computes for its score and
\* flags), the trust score result has requires_review = TRUE whenever the
\* credibility score is below 40 or a medical-claims flag is among the flags.
FromFactChecker(fc) ==
    /\ Get(fc, "status", None) = "completed"
    /\ fc = build_fact_check_result(fc.credibility_analysis.score, fc.flags)

FailedCarriesCause ==
    (analysis.exists /\ analysis.status = "failed")
    => analysis.error_message \notin {<<>>, Some("")}

\* The submit endpoint marked the row it created failed for a dispatch error
\* whose own text is empty, and answered 500.
DispatchFailureRecorded ==
    /\ analysis.exists /\ analysis.status = "failed"
    /\ analysis.error_message = Some("Failed to submit task: ")
    /\ response.endpoint = "analyze" /\ response.code = 500 /\ response.created

\* ---------------------------------------------------------------------------
\* C18  The polling endpoint reports cached = TRUE for a completed job exactly
\* when the job's result was written by the cache gate; a result written by
\* complete_analysis is never reported as cached, whatever its processing time.
ResultsStep ==
    response' /= response /\ response'.endpoint = "results" /\ response'.code = 200

SubmitStep ==
    response' /= response /\ response'.endpoint = "analyze"

ResubmitAfterFailure ==
    [][SubmitStep /\ analysis.exists =>
          IF analysis.status = "failed"
          THEN /\ response'.code = 202 /\ response'.created
               /\ analysis'.exists /\ analysis'.status = "pending"
               /\ row_id' = row_id + 1
               /\ response'.analysis_id = row_id'
               /\ row_id' \in queue'
          ELSE /\ response'.code = 202 /\ ~response'.created
               /\ response'.analysis_id = row_id
               /\ UNCHANGED <<analysis, row_id, queue>>]_vars

\* ---------------------------------------------------------------------------
\* C20  After the analysis cache of the URL was invalidated (or the whole cache
\* cleared), the next analysis request for the URL starts a fresh pipeline run:
\* a task is dispatched for it, and the request is not answered with the
\* completed result of an earlier run.
RequestAfterInvalidation ==
    invalidated /\ SubmitStep /\ analysis.exists /\ analysis.status = "completed"

InvalidationForcesReanalysis ==
    [][RequestAfterInvalidation =>
          /\ response'.status /= "completed"
          /\ response'.analysis_id \in queue'
          /\ analysis'.status = "pending"]_vars

\* ---------------------------------------------------------------------------
\* C29  For every stage bundle: total_penalties is the sum of the negative
\* impacts, total_bonuses the sum of the positive ones, their sum is the sum of
\* all impacts, and each component_scores entry is the sum of the impacts of
\* that component's adjustments.
NegativeSum(adjs) == SumImpacts(SelectSeq(adjs, LAMBDA a : a.impact < 0))
PositiveSum(adjs) == SumImpacts(SelectSeq(adjs, LAMBDA a : a.impact > 0))
ComponentSum(adjs, c) == SumImpacts(SelectSeq(adjs, LAMBDA a : a.component = c))
Dist(x, y) == IF x < y THEN y - x ELSE x - y

\* As stated: the equalities are exact.
TotalsAreExactSums ==
    score_result /= <<>> =>
        LET res == score_result[1]
            adjs == res.adjustments
        IN  /\ res.total_penalties = NegativeSum(adjs)
            /\ res.total_bonuses = PositiveSum(adjs)
            /\ res.total_penalties + res.total_bonuses = SumImpacts(adjs)
            /\ DOMAIN res.component_scores = {a.component : a \in Range(adjs)}
            /\ \A c \in DOMAIN res.component_scores :
                   res.component_scores[c] = ComponentSum(adjs, c)

\* What holds: every reported total is its sum rounded to two decimals, so
\* total_penalties + total_bonuses is within 0.01 of the sum of all impacts.
TotalsAreRoundedSums ==
    score_result /= <<>> =>
        LET res == score_result[1]
            adjs == res.adjustments
        IN  /\ res.total_penalties = Round2(NegativeSum(adjs))
            /\ res.total_bonuses = Round2(PositiveSum(adjs))
            /\ Dist(res.total_penalties + res.total_bonuses, SumImpacts(adjs)) <= 10
            /\ DOMAIN res.component_scores = {a.component : a \in Range(adjs)}
            /\ \A c \in DOMAIN res.component_scores :
                   res.component_scores[c] = Round2(ComponentSum(adjs, c))

\* A scored bundle with penalties and a bonus, two adjustments of one component,
\* and a penalty sum that has a third decimal.
MixedTotalsScored ==
    /\ score_result /= <<>>
    /\ LET res == score_result[1]
           adjs == res.adjustments
       IN  /\ res.total_penalties < 0 /\ res.total_bonuses > 0
           /\ NegativeSum(adjs) % 10 /= 0
           /\ \E c \in DOMAIN res.component_scores :
                  Len(SelectSeq(adjs, LAMBDA a : a.component = c)) >= 2

\* ---------------------------------------------------------------------------
\* C30  For every configuration of the fact-check thresholds and multipliers
\* and every credibility sub-score in [0,100]: at most one credibility
\* adjustment is emitted, a Low Credibility or Questionable Credibility
\* adjustment has impact <= 0, and a High Credibility adjustment has
\* impact >= 0.
CredibilityCategories == {"Low Credibility", "Questionable Credibility", "High Credibility"}

CredibilitySignsMatchCategory ==
    score_result /= <<>> =>
        LET cred == SelectSeq(score_result[1].adjustments,
                              LAMBDA a : a.category \in CredibilityCategories)
        IN  /\ Len(cred) <= 1
            /\ \A a \in Range(cred) :
                   /\ a.category \in {"Low Credibility", "Questionable Credibility"}
                         => a.impact <= 0
                   /\ a.category = "High Credibility" => a.impact >= 0

\* ---------------------------------------------------------------------------
\* C21  For every client IP and after any sequence of is_allowed calls,
\* including calls that run the periodic cleanup: the requests admitted for
\* that IP in any trailing minute window (T - MinuteWindow, T] number at most
\* requests_per_minute, and in any trailing hour window at most
\* requests_per_hour.
AdmittedIn(ip, T, window) ==
    Len(SelectSeq(admitted[ip], LAMBDA ts : ts > T - window /\ ts <= T))

ContinuationStep(r) ==
    cont'[r].runs = cont[r].runs + 1 /\ cont'[r].ret /= "killed"

BarrierAndAttribution ==
    [][\A r \in Runs : ContinuationStep(r) =>
          /\ \A m \in Members : ~IsNone(chord[r].results[m])
          /\ chord[r].lost = {}
          /\ \A m \in Members :
                 /\ Val(cont'[r].parallel)[m] = Val(chord[r].results[m])
                 /\ Val(cont'[r].parallel)[m]
                       \in member_outcomes(m, Val(chord[r].post_info))]_vars

\* The continuation ran for a group whose last member in group order finished
\* first, and holds the failed AI result as the AI result.
LastMemberFirstThenContinuation ==
    \E r \in Runs :
        /\ cont[r].runs > 0 /\ cont[r].ret /= "killed"
        /\ chord[r].first = "deepfake"
        /\ Val(cont[r].parallel).ai_detection = [status |-> "failed", error |-> "vision error"]
        /\ Val(cont[r].parallel).ocr.status = "completed"

\* ---------------------------------------------------------------------------
\* C23  A continuation that runs on a job already marked failed leaves the
\* status failed, leaves the job's results and trust score as they were, and
\* writes nothing to the pipeline-result cache.
FailedJobIsLeftAlone ==
    [][\A r \in Runs :
          ContinuationStep(r) /\ analysis.exists /\ analysis.status = "failed" =>
              /\ analysis'.status = "failed"
              /\ analysis'.results = analysis.results
              /\ analysis'.trust_score = analysis.trust_score
              /\ analysis_cache' = analysis_cache
              /\ cache_log'.store = "none"]_vars

\* The task was stopped by the soft limit after it had dispatched the group,
\* and the continuation ran afterwards: the row carries the continuation's
\* error, written over the one of the time limit.
ContinuationAfterLateFailure ==
    /\ chord[1].dispatched
    /\ run[1].ret = "error" /\ run[1].error = Some("SoftTimeLimitExceeded()")
    /\ cont[1].runs = 1 /\ cont[1].ret = "error"
    /\ analysis.status = "failed"
    /\ analysis.error_message /= Some("SoftTimeLimitExceeded()")

\* ---------------------------------------------------------------------------
\* C24  A second execution of the continuation for the same job, with the
\* same parallel results, leaves the job's status, persisted results, trust
\* score, the grade it reports and the cached pipeline value as the first
\* execution left them.
SecondContinuationStep(r) ==
    /\ cont[r].runs >= 1 /\ cont[r].ret \in {"success", "error"}
    /\ cont'[r].runs = cont[r].runs + 1 /\ cont'[r].ret /= "killed"

ContinuationIsIdempotent ==
    [][\A r \in Runs : SecondContinuationStep(r) =>
          /\ cont'[r].parallel = cont[r].parallel
          /\ analysis'.status = analysis.status
          /\ analysis'.results = analysis.results
          /\ analysis'.trust_score = analysis.trust_score
          /\ cont'[r].grade = cont[r].grade
          /\ analysis_cache' = analysis_cache]_vars

\* The continuation has run twice on a group of which one member failed.
ContinuationRanTwice ==
    \E r \in Runs :
        /\ cont[r].runs = MaxContDeliver + 1
        /\ Val(cont[r].parallel).ai_detection.status = "failed"
        /\ analysis.status = "failed"

\* ---------------------------------------------------------------------------
\* C25  Within one delivery of a job the steps come in order, each after its
\* predecessor has finished: whole-pipeline cache lookup, raw-content cache
\* lookup, extraction, dispatch of the group, the analyzers, the continuation
\* with claim analysis and reputation evaluation, score computation,
\* persistence. No extraction and no analyzer runs before the whole-pipeline
\* lookup of its delivery.
\* The delivery leaves the gate for the extraction: its lookup has been made.
GateFirst(r) ==
    run[r].pc /= "extract" /\ run'[r].pc = "extract" =>
        /\ run[r].pc = "gate"
        /\ cache_log'.r = r /\ cache_log'.gate \in {"miss", "fault"}
        /\ run[r].fetch = "none" /\ ~chord[r].dispatched

\* A raw-content lookup is made after the gate, and get_post_info after a
\* raw-content lookup that found nothing.
RawLookupThenExtraction(r) ==
    /\ (cache_log'.r = r /\ cache_log'.raw /= "none") => run[r].pc = "extract"
    /\ run'[r].fetch /= run[r].fetch =>
           /\ run[r].pc = "extract"
           /\ cache_log'.r = r /\ cache_log'.raw \in {"miss", "fault"}

\* The group is dispatched once the content is there: found in the cache or extracted.
ContentThenDispatch(r) ==
    ~chord[r].dispatched /\ chord'[r].dispatched =>
        /\ run[r].pc = "extract"
        /\ cache_log'.raw = "hit" \/ run'[r].fetch = "post"
        /\ ~IsNone(chord'[r].post_info)
        /\ \A m \in Members : IsNone(chord'[r].results[m])

\* An analyzer runs on a dispatched group; the continuation after all of them.
DispatchThenAnalyzers(r) ==
    \A m \in Members :
        chord'[r].results[m] /= chord[r].results[m] =>
            chord[r].dispatched /\ cont[r].runs = 0

\* The continuation runs the dependent stages on the analyzers' results, the
\* score is computed from the stages, and the row is completed from the score.
StagesThenScoreThenPersist(r) ==
    ContinuationStep(r) =>
        /\ AllReported(r)
        /\ ~IsNone(cont'[r].fact_check) /\ ~IsNone(cont'[r].source)
        /\ analysis'.status = "completed" => cont'[r].scored
        /\ analysis_cache' /= analysis_cache => cont'[r].scored

StepsInOrder ==
    [][\A r \in Runs :
          /\ GateFirst(r)
          /\ RawLookupThenExtraction(r)
          /\ ContentThenDispatch(r)
          /\ DispatchThenAnalyzers(r)
          /\ StagesThenScoreThenPersist(r)]_vars

\* A delivery went through every step up to the scoring call: lookup missed,
\* content extracted, group dispatched and finished, dependent stages run.
WholeChainRun ==
    \E r \in Runs :
        /\ run[r].fetch = "post" /\ run[r].ret = "processing"
        /\ AllReported(r)
        /\ cont[r].runs = 1 /\ cont[r].ret = "error"
        /\ Val(cont[r].fact_check).status = "completed"

\* ---------------------------------------------------------------------------
\* C26  A hit on the raw-content cache skips the extraction call and nothing
\* else: get_post_info is not invoked, the cache is left as it is, and the
\* content is committed and the group dispatched on the cached content, as
\* after an extraction that returned this content; the analyzers, the
\* dependent stages and the scoring call then run on that group.
RawHitStep(r) ==
    cache_log'.r = r /\ cache_log'.raw = "hit"

RawHitSkipsOnlyExtraction ==
    [][\A r \in Runs : RawHitStep(r) =>
          /\ ~IsNone(instagram_cache)
          /\ run'[r].fetch = "none"
          /\ instagram_cache' = instagram_cache
          /\ analysis.exists =>
                 /\ analysis'.content = instagram_cache
                 /\ analysis'.status = analysis.status
                 /\ run'[r].ret = "processing"
                 /\ chord'[r].dispatched
                 /\ chord'[r].post_info = instagram_cache
                 /\ \A m \in Members : IsNone(chord'[r].results[m])]_vars

\* A delivery found the photo post in the raw-content cache, made no call of
\* get_post_info, and its group and continuation ran on the cached post.
CachedContentAnalysed ==
    \E r \in Runs :
        /\ run[r].fetch = "none" /\ run[r].ret = "processing"
        /\ Val(chord[r].post_info).type = "photo"
        /\ AllReported(r)
        /\ Val(chord[r].results["ocr"]).status = "completed"
        /\ cont[r].runs = 1 /\ cont[r].ret = "error"

\* ---------------------------------------------------------------------------
\* C27  Every stage result collected into a job's bundle (AI detection, OCR,
\* deepfake, fact-check, claim verification, source credibility) has a status
\* among completed, skipped and failed, carries a payload exactly when it is
\* completed, and carries a reason or an error exactly when it is skipped or
\* failed.
\* The results dict complete_analysis builds at lines 180-203, less the
\* extraction summary.
collected(co) ==
    [ai_detection |-> Val(co.parallel).ai_detection,
     ocr |-> Val(co.parallel).ocr,
     deepfake |-> Val(co.parallel).deepfake,
     fact_check |-> Val(co.fact_check),
     claim_verification |-> Val(co.claim_verification),
     source_credibility |-> Val(co.source)]

Explanations == {"reason", "error"}

HasPayload(res) == DOMAIN res \ ({"status"} \cup Explanations) /= {}

WellFormedStage(res) ==
    /\ "status" \in DOMAIN res
    /\ res.status \in {"completed", "skipped", "failed"}
    /\ HasPayload(res) <=> res.status = "completed"
    /\ (DOMAIN res \cap Explanations /= {}) <=> res.status \in {"skipped", "failed"}

StageResultsWellFormed ==
    \A r \in Runs :
        (cont[r].runs > 0 /\ cont[r].ret /= "killed") =>
            \A k \in DOMAIN collected(cont[r]) : WellFormedStage(collected(cont[r])[k])

\* ---------------------------------------------------------------------------
\* C28  A cache entry, of the pipeline-result key or of the raw-content key,
\* is written only by a job that completes successfully: starting from empty
\* caches, a job that is failed has left no entry under either key.
FailedJobLeftNoEntry ==
    analysis.status = "failed" => IsNone(instagram_cache) /\ IsNone(analysis_cache)

====
